---- MODULE Spec2Model ----
(***************************************************************************)
(* The in-process application server of autogpt/core/runner/server.py:     *)
(* the MessageFilters predicates, the message broker the server builds,    *)
(* the per-sender mailbox (message_queue) and the server's operations.     *)
(* SimpleMessageBroker, Message and Role live in                           *)
(* autogpt/core/messaging/simple.py; they are modelled from the            *)
(* specification's sections 3 and 4.                                       *)
(***************************************************************************)
EXTENDS Integers, Sequences, FiniteSets, TLC

VARIABLES channels,       \* broker: created channel name -> listener registrations
          message_queue,  \* FakeApplicationServer.message_queue (a defaultdict(list))
          last,           \* the most recent publish: what was dispatched and how it ended
          response        \* the most recent call of a server operation and its outcome

vars == <<channels, message_queue, last, response>>

----------------------------------------------------------------------------
(* Bounds of the model *)

MaxListeners == 5   \* registrations a channel may hold
MaxQueue == 2       \* messages all mailbox queues may hold together

----------------------------------------------------------------------------
(* Values: Role, sender identities, metadata values, messages *)

Role == {"USER", "AGENT", "AGENT_FACTORY"}

UserSender == [name |-> "autogpt-user", role |-> "USER"]
FactorySender == [name |-> "autogpt-agent-factory", role |-> "AGENT_FACTORY"]
AgentSender == [name |-> "autogpt-agent", role |-> "AGENT"]
Senders == {UserSender, FactorySender, AgentSender}

\* Python values that occur under additional_metadata["instruction"]
PyStr(s) == [type |-> "str", str |-> s, int |-> 0]
PyInt(n) == [type |-> "int", str |-> "", int |-> n]
PyBool(b) == [type |-> "bool", str |-> "", int |-> IF b THEN 1 ELSE 0]

\* additional_metadata, restricted to the key "instruction": absent or bound
NoInstruction == [keys |-> {}, instruction |-> PyInt(0)]
Instruction(v) == [keys |-> {"instruction"}, instruction |-> v]

Metadatas ==
    {NoInstruction, Instruction(PyStr("bootstrap_agent")), Instruction(PyInt(1))}

\* content: the payload, and whether the key "message_broker" is in it
Content(result) == [result |-> result, message_broker |-> FALSE]
Contents == {Content("ok")}

Message(content, sender, additional_metadata) ==
    [content |-> content,
     metadata |-> [sender |-> sender, additional_metadata |-> additional_metadata]]

\* the messages emitters send
Messages == {Message(c, s, md) : c \in Contents, s \in Senders, md \in Metadatas}

NoMessage == Message(Content(""), [name |-> "", role |-> ""], NoInstruction)

----------------------------------------------------------------------------
(* Outcome of evaluating a Python expression: a value or a raised exception *)

Return(b) == [exc |-> "none", val |-> b]
Raise(e) == [exc |-> e, val |-> FALSE]

----------------------------------------------------------------------------
(* MessageFilters *)

is_user_message(message) == message.metadata.sender.role = "USER"

is_agent_message(message) == message.metadata.sender.role = "AGENT"

is_agent_factory_message(message) == message.metadata.sender.role = "AGENT_FACTORY"

\* mutant: `&` in the place of `|`
is_server_message_conjunction(message) ==
    is_agent_message(message) /\ is_agent_factory_message(message)

\* bool | bool
is_server_message(message) ==
    is_agent_message(message) \/ is_agent_factory_message(message)

\* a & b for a bool a: defined for bool and int b, a TypeError for a str b
py_and(a, b) ==
    IF b.type = "str" THEN Raise("TypeError")
    ELSE [exc |-> "none", val |-> IF b.type = "bool"
                                     THEN PyBool(a /\ b.int = 1)
                                     ELSE PyInt(IF a THEN b.int % 2 ELSE 0)]

\* x == "literal": a bool or an int never equals a str
py_eq_str(x, literal) == x.type = "str" /\ x.str = literal

\* is_user_message(message) & additional_metadata["instruction"] == literal
\* `&` binds tighter than `==`: (is_user_message(message) & value) == literal
user_instruction_filter(message, literal) ==
    LET md == message.metadata.additional_metadata
    IN  IF "instruction" \notin md.keys THEN Raise("KeyError")
        ELSE LET conj == py_and(is_user_message(message), md.instruction)
             IN  IF conj.exc # "none" THEN Raise(conj.exc)
                 ELSE Return(py_eq_str(conj.val, literal))

is_user_bootstrap_message(message) ==
    user_instruction_filter(message, "bootstrap_agent")

is_user_launch_message(message) ==
    user_instruction_filter(message, "launch_agent")

\* calling the filter registered under a name
apply_filter(name, message) ==
    CASE name = "is_user_message" -> Return(is_user_message(message))
      [] name = "is_agent_message" -> Return(is_agent_message(message))
      [] name = "is_agent_factory_message" -> Return(is_agent_factory_message(message))
      [] name = "is_server_message" -> Return(is_server_message(message))
      [] name = "is_user_bootstrap_message" -> is_user_bootstrap_message(message)
      [] name = "is_user_launch_message" -> is_user_launch_message(message)

----------------------------------------------------------------------------
(* The mailbox: FakeApplicationServer.message_queue, a defaultdict(list) *)

\* message_queue[name] as an expression reads it: a missing key reads as []
queue_of(queue, name) == IF name \in DOMAIN queue THEN queue[name] ELSE <<>>

\* message_queue[name] = value
set_queue(queue, name, value) ==
    [n \in DOMAIN queue \cup {name} |-> IF n = name THEN value ELSE queue[n]]

\* mutant: the message is put at the head of the list
_add_to_queue_at_head(queue, message) ==
    LET name == message.metadata.sender.name
    IN  set_queue(queue, name, <<message>> \o queue_of(queue, name))

\* mutant: the queue is keyed by the sender's role
_add_to_queue_by_role(queue, message) ==
    LET name == message.metadata.sender.role
    IN  set_queue(queue, name, Append(queue_of(queue, name), message))

\* self.message_queue[message.metadata.sender.name].append(message)
_add_to_queue(queue, message) ==
    LET name == message.metadata.sender.name
    IN  set_queue(queue, name, Append(queue_of(queue, name), message))

RECURSIVE SumLen(_, _)
SumLen(queue, names) ==
    IF names = {} THEN 0
    ELSE LET n == CHOOSE x \in names : TRUE
         IN  Len(queue[n]) + SumLen(queue, names \ {n})

\* number of messages held in all queues
QueuedCount(queue) == SumLen(queue, DOMAIN queue)

----------------------------------------------------------------------------
(* The message broker *)

\* "autogpt" is the one channel the server creates; "events" is never created
ChannelNames == {"autogpt", "events"}

Listener(listener, message_filter) ==
    [listener |-> listener, message_filter |-> message_filter]

\* listeners that other components register: one that returns, one that raises
ExternalListeners == {"spy", "failing"}

\* the filters other components register their listeners with
RegisteredFilters == {"is_server_message"}

\* mutant: the mailbox listener registered after bootstrap_agent
_get_message_broker_mailbox_second ==
    <<Listener("bootstrap_agent", "is_user_bootstrap_message"),
      Listener("_add_to_queue", "is_server_message"),
      Listener("launch_agent", "is_user_launch_message")>>

\* mutant: the mailbox listener registered with the filter for user messages
_get_message_broker_mailbox_for_users ==
    <<Listener("_add_to_queue", "is_user_message"),
      Listener("bootstrap_agent", "is_user_bootstrap_message"),
      Listener("launch_agent", "is_user_launch_message")>>

\* FakeApplicationServer._get_message_broker: the registrations on "autogpt"
_get_message_broker ==
    <<Listener("_add_to_queue", "is_server_message"),
      Listener("bootstrap_agent", "is_user_bootstrap_message"),
      Listener("launch_agent", "is_user_launch_message")>>

\* invoking a handler: the mailbox after it, and whether it raised
call_listener(listener, queue, message) ==
    CASE listener = "_add_to_queue" ->
            [queue |-> _add_to_queue(queue, message), raised |-> FALSE]
      [] listener = "failing" -> [queue |-> queue, raised |-> TRUE]
      [] OTHER -> [queue |-> queue, raised |-> FALSE]

\* what the agent factory publishes when it has bootstrapped an agent
FactoryResponse == Message(Content("ok"), FactorySender, NoInstruction)

NewDispatch(queue) ==
    [invoked |-> <<>>, failed |-> {}, queue |-> queue, exc |-> "none", nested |-> <<>>]

RECURSIVE dispatch(_, _, _, _)

\* invoking listener i of a channel. bootstrap_agent publishes its response on
\* the same channel from inside the handler: a nested dispatch, whose exception
\* (if any) is the handler's.
invoke(listeners, i, acc, message) ==
    IF listeners[i].listener = "bootstrap_agent"
    THEN LET inner == dispatch(listeners, FactoryResponse, 1, NewDispatch(acc.queue))
         IN  [queue |-> inner.queue, raised |-> inner.exc # "none",
              nested |-> <<[message |-> FactoryResponse, invoked |-> inner.invoked,
                            exc |-> inner.exc]>>]
    ELSE LET called == call_listener(listeners[i].listener, acc.queue, message)
         IN  [queue |-> called.queue, raised |-> called.raised, nested |-> <<>>]

\* mutant: a handler that raises ends the dispatch and reaches the caller
RECURSIVE dispatch_unisolated(_, _, _, _)
dispatch_unisolated(listeners, message, i, acc) ==
    IF i > Len(listeners) THEN acc
    ELSE LET matches == apply_filter(listeners[i].message_filter, message)
         IN  IF matches.exc # "none" THEN [acc EXCEPT !.exc = matches.exc]
             ELSE IF ~matches.val
             THEN dispatch_unisolated(listeners, message, i + 1, acc)
             ELSE LET called == invoke(listeners, i, acc, message)
                      next == [acc EXCEPT !.invoked = Append(@, i),
                                          !.failed = IF called.raised
                                                     THEN @ \cup {i} ELSE @,
                                          !.queue = called.queue,
                                          !.nested = @ \o called.nested]
                  IN  IF called.raised
                      THEN [next EXCEPT !.exc = "ListenerHandlerFailure"]
                      ELSE dispatch_unisolated(listeners, message, i + 1, next)

\* the dispatch loop over a channel's listeners, from listener i on.
\* A handler that raises is isolated; a filter that raises is not a handler
\* failure: the exception leaves the loop and reaches the caller of publish.
dispatch(listeners, message, i, acc) ==
    IF i > Len(listeners) THEN acc
    ELSE LET matches == apply_filter(listeners[i].message_filter, message)
         IN  IF matches.exc # "none" THEN [acc EXCEPT !.exc = matches.exc]
             ELSE IF ~matches.val THEN dispatch(listeners, message, i + 1, acc)
             ELSE LET called == invoke(listeners, i, acc, message)
                  IN  dispatch(listeners, message, i + 1,
                               [acc EXCEPT !.invoked = Append(@, i),
                                           !.failed = IF called.raised
                                                      THEN @ \cup {i} ELSE @,
                                           !.queue = called.queue,
                                           !.nested = @ \o called.nested])

\* mutant: a channel that does not exist is created on the fly, as "autogpt" is
publish_outcome_creates_channel(chans, queue, channel, message) ==
    dispatch(IF channel \in DOMAIN chans THEN chans[channel] ELSE _get_message_broker,
             message, 1, NewDispatch(queue))

\* publish(channel, message): the outcome for the caller and the mailbox after it
publish_outcome(chans, queue, channel, message) ==
    IF channel \notin DOMAIN chans
    THEN [NewDispatch(queue) EXCEPT !.exc = "ChannelNotFound"]
    ELSE dispatch(chans[channel], message, 1, NewDispatch(queue))

\* the record of a broker call: publish returns true when dispatch ran through
Last(op, channel, message, out) ==
    [op |-> op, channel |-> channel, message |-> message,
     invoked |-> out.invoked, failed |-> out.failed, exc |-> out.exc,
     nested |-> out.nested,
     returned |-> (op = "publish" /\ out.exc = "none")]

NoDispatch(exc) == [invoked |-> <<>>, failed |-> {}, exc |-> exc, nested |-> <<>>]

\* the outcome of a call of a server operation: the exception it ended with or
\* the response it returned, and the message it published (if it came that far)
Response(op, exc, status_code, json, sm) ==
    [op |-> op, exc |-> exc, status_code |-> status_code, json |-> json,
     published |-> sm.sent, message |-> sm.message]

NoResponse ==
    Response("none", "none", 0, <<>>, [sent |-> FALSE, message |-> NoMessage])

----------------------------------------------------------------------------
(* FakeApplicationServer *)

NoneValue == [is_none |-> TRUE, instruction |-> PyInt(0), message_broker |-> FALSE]
ExtraContent == [is_none |-> FALSE, instruction |-> PyInt(0), message_broker |-> TRUE]
ExtraMetadata(v) == [is_none |-> FALSE, instruction |-> v, message_broker |-> FALSE]

\* request.json: "content" and "metadata"
Requests == {[content |-> c, metadata |-> NoInstruction] : c \in Contents}

\* _send_message(request, extra_content, extra_metadata): the exception it ends
\* with, the message it published (if it came that far) and the dispatch of it
_send_message(chans, queue, request, extra_content, extra_metadata) ==
    IF extra_content.is_none \/ extra_metadata.is_none
    THEN \* {**mapping, **None}
         [exc |-> "TypeError", status_code |-> 0, sent |-> FALSE, message |-> NoMessage,
          out |-> NewDispatch(queue)]
    ELSE LET content == [request.content EXCEPT !.message_broker = extra_content.message_broker]
             metadata == Instruction(extra_metadata.instruction)
             message == Message(content, UserSender, metadata)
             out == publish_outcome(chans, queue, "autogpt", message)
         IN  [exc |-> IF out.exc # "none" THEN out.exc
                      ELSE "AttributeError",  \* response = object(); response.status_code = ...
              status_code |-> 0,
              sent |-> TRUE, message |-> message, out |-> out]

----------------------------------------------------------------------------
(* Operations *)

\* the state after `application_server = FakeApplicationServer()`
Init ==
    /\ channels = [c \in {"autogpt"} |-> _get_message_broker]
    /\ message_queue = [n \in {} |-> <<>>]
    /\ last = Last("init", "autogpt", NoMessage, NoDispatch("none"))
    /\ response = NoResponse

register_listener(message_channel, listener, message_filter) ==
    /\ IF message_channel \notin DOMAIN channels
       THEN /\ last' = Last("register_listener", message_channel, NoMessage,
                            NoDispatch("ChannelNotFound"))
            /\ UNCHANGED channels
       ELSE /\ Len(channels[message_channel]) < MaxListeners
            /\ channels' = [channels EXCEPT ![message_channel] =
                                Append(@, Listener(listener, message_filter))]
            /\ last' = Last("register_listener", message_channel, NoMessage,
                            NoDispatch("none"))
    /\ UNCHANGED <<message_queue, response>>

\* Emitter.send_message / publish of a message on a channel
publish(channel, message) ==
    LET out == publish_outcome(channels, message_queue, channel, message)
    IN  /\ QueuedCount(out.queue) <= MaxQueue
        /\ message_queue' = out.queue
        /\ last' = Last("publish", channel, message, out)
        /\ UNCHANGED <<channels, response>>

boostrap_new_agent(request) ==
    LET sm == _send_message(channels, message_queue, request, ExtraContent,
                            ExtraMetadata(PyStr("bootstrap_agent")))
        name == "autogpt-agent-factory"
    IN  /\ QueuedCount(sm.out.queue) <= MaxQueue
        /\ last' = IF sm.sent THEN Last("publish", "autogpt", sm.message, sm.out) ELSE last
        /\ IF sm.exc # "none"
           THEN /\ message_queue' = sm.out.queue
                /\ response' = Response("boostrap_new_agent", sm.exc, 0, <<>>, sm)
           ELSE \* agent_factory_responses = self.message_queue[name]
                \* self.message_queue[name] = []
                /\ message_queue' = set_queue(sm.out.queue, name, <<>>)
                /\ response' = Response("boostrap_new_agent", "none", sm.status_code,
                                         queue_of(sm.out.queue, name), sm)
        /\ UNCHANGED channels

\* return await self._send_message(request)
launch_agent(request) ==
    LET sm == _send_message(channels, message_queue, request, NoneValue, NoneValue)
    IN  /\ QueuedCount(sm.out.queue) <= MaxQueue
        /\ last' = IF sm.sent THEN Last("publish", "autogpt", sm.message, sm.out) ELSE last
        /\ message_queue' = sm.out.queue
        /\ response' = Response("launch_agent", sm.exc, sm.status_code, <<>>, sm)
        /\ UNCHANGED channels

\* list.pop(): the list without its last element; IndexError on an empty list
pop(list) ==
    IF list = <<>> THEN [exc |-> "IndexError", list |-> list]
    ELSE [exc |-> "none", list |-> SubSeq(list, 1, Len(list) - 1)]

give_agent_feedback(request) ==
    LET sm == _send_message(channels, message_queue, request, NoneValue, NoneValue)
        name == "autogpt-agent"
        \* self.message_queue["autogpt-agent"]: the read creates a missing key
        read == set_queue(sm.out.queue, name, queue_of(sm.out.queue, name))
        popped == pop(read[name])
    IN  /\ QueuedCount(sm.out.queue) <= MaxQueue
        /\ last' = IF sm.sent THEN Last("publish", "autogpt", sm.message, sm.out) ELSE last
        /\ IF sm.exc # "none"
           THEN /\ message_queue' = sm.out.queue
                /\ response' = Response("give_agent_feedback", sm.exc, 0, <<>>, sm)
           ELSE \* response.json = {"content": self.message_queue["autogpt-agent"].pop()}
                /\ message_queue' = set_queue(read, name, popped.list)
                /\ response' = Response("give_agent_feedback", popped.exc, sm.status_code,
                                         IF popped.exc = "none"
                                         THEN <<read[name][Len(read[name])]>> ELSE <<>>, sm)
        /\ UNCHANGED channels

Next ==
    \/ \E c \in ChannelNames, l \in ExternalListeners, f \in RegisteredFilters :
          register_listener(c, l, f)
    \/ \E c \in ChannelNames, m \in Messages : publish(c, m)
    \/ \E request \in Requests : boostrap_new_agent(request)
    \/ \E request \in Requests : launch_agent(request)
    \/ \E request \in Requests : give_agent_feedback(request)

Spec == Init /\ [][Next]_vars

----------------------------------------------------------------------------
(* Properties *)

Range(seq) == {seq[k] : k \in 1..Len(seq)}

\* the listeners of the channel the last publish went to
LastListeners == channels[last.channel]

\* listener i's filter returns true (false) for the message of the last publish
FilterTrue(i) == apply_filter(LastListeners[i].message_filter, last.message) = Return(TRUE)
FilterFalse(i) == apply_filter(LastListeners[i].message_filter, last.message) = Return(FALSE)

Dispatched == last.op = "publish" /\ last.channel \in DOMAIN channels

C2_ExactlyTheMatchingListeners ==
    Dispatched =>
        \A i \in 1..Len(LastListeners) :
            /\ FilterTrue(i) =>
                 Cardinality({k \in 1..Len(last.invoked) : last.invoked[k] = i}) = 1
            /\ FilterFalse(i) => i \notin Range(last.invoked)

\* C3: when the handler of a matching listener raises, every matching listener
\* registered after it is still invoked for the same publish, and the failure
\* does not reach the caller of publish.
C3_HandlerFailureIsolated ==
    (Dispatched /\ last.failed # {}) =>
        /\ last.failed \subseteq Range(last.invoked)
        /\ \A i \in last.failed : \A j \in 1..Len(LastListeners) :
              (j > i /\ FilterTrue(j)) => j \in Range(last.invoked)
        /\ last.exc = "none"
        /\ last.returned

\* a handler raised and a matching listener registered after it was invoked
C3_Witness ==
    /\ Dispatched
    /\ \E i \in last.failed : \E j \in Range(last.invoked) : j > i /\ FilterTrue(j)
    /\ last.returned

\* C4: publishing to a channel that was never created fails with
\* ChannelNotFound, invokes no handler and leaves every mailbox queue unchanged.
C4_PublishToMissingChannel ==
    [][\A c \in ChannelNames, m \in Messages :
          (c \notin DOMAIN channels /\ publish(c, m)) =>
              /\ last'.exc = "ChannelNotFound"
              /\ ~last'.returned
              /\ last'.invoked = <<>>
              /\ message_queue' = message_queue]_vars

\* a publish to the channel that was never created, with messages queued
C4_Witness ==
    /\ last.op = "publish"
    /\ last.channel \notin DOMAIN channels
    /\ last.exc = "ChannelNotFound"
    /\ QueuedCount(message_queue) > 0

\* C5: the drain of a sender's queue returns the messages published from that
\* sender in publish order and leaves the queue empty, so that a second drain
\* returns the empty sequence.
C5_DrainReturnsInPublishOrder ==
    [][\A request \in Requests :
          (/\ Len(queue_of(message_queue, "autogpt-agent-factory")) = 2
           /\ boostrap_new_agent(request)) =>
          /\ response'.exc = "none"
          /\ response'.json = queue_of(message_queue, "autogpt-agent-factory")
          /\ queue_of(message_queue', "autogpt-agent-factory") = <<>>]_vars

\* C6: every message appended to a sender's queue is returned by exactly one
\* drain: what a drain returns and what it leaves in the queue are together
\* the messages the queue held, and it leaves none of those behind.
C6_DrainTakesEveryMessageOnce ==
    [][\A request \in Requests : boostrap_new_agent(request) =>
          LET before == queue_of(message_queue, "autogpt-agent-factory")
              after == queue_of(message_queue', "autogpt-agent-factory")
          IN  /\ response'.json \o after = before
              /\ after = <<>>]_vars

\* C7: for a message without the key "instruction", is_user_bootstrap_message
\* and is_user_launch_message both return false and neither raises.
C7_MissingInstructionIsNoMatch ==
    (last.op = "publish"
        /\ "instruction" \notin last.message.metadata.additional_metadata.keys) =>
        /\ is_user_bootstrap_message(last.message) = Return(FALSE)
        /\ is_user_launch_message(last.message) = Return(FALSE)

\* whether a message is from a user and carries the instruction
IsUserInstruction(message, literal) ==
    /\ message.metadata.sender.role = "USER"
    /\ message.metadata.additional_metadata.instruction = PyStr(literal)

\* C8: with the key "instruction" present, is_user_bootstrap_message is true
\* exactly for a USER message whose instruction is "bootstrap_agent", and
\* is_user_launch_message exactly for a USER message whose instruction is
\* "launch_agent"; otherwise the result is false.
C8_UserInstructionFilters ==
    (last.op = "publish"
        /\ "instruction" \in last.message.metadata.additional_metadata.keys) =>
        /\ is_user_bootstrap_message(last.message)
             = Return(IsUserInstruction(last.message, "bootstrap_agent"))
        /\ is_user_launch_message(last.message)
             = Return(IsUserInstruction(last.message, "launch_agent"))

\* C9: is_server_message is true for sender role AGENT or AGENT_FACTORY and
\* false for USER, it is the disjunction of is_agent_message and
\* is_agent_factory_message, and exactly one of is_user_message,
\* is_agent_message, is_agent_factory_message is true.
C9_ServerMessage ==
    last.op = "publish" =>
        LET m == last.message
            role == m.metadata.sender.role
        IN  /\ role \in {"AGENT", "AGENT_FACTORY"} => is_server_message(m)
            /\ role = "USER" => ~is_server_message(m)
            /\ is_server_message(m) = (is_agent_message(m) \/ is_agent_factory_message(m))
            /\ Cardinality({f \in {"is_user_message", "is_agent_message",
                                   "is_agent_factory_message"} :
                               apply_filter(f, m) = Return(TRUE)}) = 1

\* a message of the agent factory was published and is a server message
C9_Witness ==
    /\ last.op = "publish"
    /\ last.message.metadata.sender.role = "AGENT_FACTORY"
    /\ is_server_message(last.message)
    /\ ~is_user_message(last.message)

\* the message of the scenario: {"result": "ok"} from the agent factory, no metadata
ScenarioMessage == Message(Content("ok"), FactorySender, NoInstruction)

\* C10: on "autogpt" as the server wires it, sending {"result": "ok"} with empty
\* metadata from ("autogpt-agent-factory", AGENT_FACTORY) succeeds, and the
\* following drain of "autogpt-agent-factory" returns exactly that one message.
C10_SendThenDrain ==
    [][\A request \in Requests :
          (/\ last.op = "publish" /\ last.channel = "autogpt"
           /\ last.message = ScenarioMessage
           /\ queue_of(message_queue, "autogpt-agent-factory") = <<ScenarioMessage>>
           /\ boostrap_new_agent(request)) =>
              /\ last.returned
              /\ response'.exc = "none"
              /\ Len(response'.json) = 1
              /\ response'.json[1].content = Content("ok")]_vars

\* C11: publish on an existing channel returns true whenever dispatch was
\* attempted, whether or not a listener matched or a handler raised, and
\* send_message returns that value.
C11_PublishReturnsTrue ==
    Dispatched => (last.exc = "none" /\ last.returned)

\* the message boostrap_new_agent publishes
IsBootstrapMessage(message) ==
    /\ message.metadata.sender = UserSender
    /\ message.metadata.additional_metadata = Instruction(PyStr("bootstrap_agent"))

\* C12: when the agent factory's handler, invoked for a bootstrap message,
\* publishes on the same channel, the nested publish dispatches to the matching
\* listeners in registration order, and the nested and the outer publish both
\* complete.
C12_NestedDispatchCompletes ==
    (Dispatched /\ last.channel = "autogpt" /\ IsBootstrapMessage(last.message)) =>
        /\ last.returned
        /\ Len(last.nested) >= 1
        /\ \A n \in 1..Len(last.nested) :
              /\ last.nested[n].exc = "none"
              /\ \A a, b \in 1..Len(last.nested[n].invoked) :
                    a < b => last.nested[n].invoked[a] < last.nested[n].invoked[b]

\* C13: every change of a sender's queue is an append of the published message
\* at the tail or a drain that clears the whole queue; no step removes only a
\* part of a queue or changes it otherwise.
C13_OnlyAppendOrDrain ==
    [][\A name \in DOMAIN message_queue' :
          LET before == queue_of(message_queue, name)
              after == message_queue'[name]
          IN  \/ after = before
              \/ after = Append(before, last'.message)
              \/ after = <<>>]_vars

\* give_agent_feedback was called and the queue of "autogpt-agent" holds messages
C13_Witness ==
    /\ response.op = "give_agent_feedback"
    /\ Len(queue_of(message_queue, "autogpt-agent")) >= 2

\* C14: a sender name becomes a key of the mailbox only by the first append of
\* a message from that sender, and a key is never removed.
C14_KeysCreatedByFirstAppend ==
    [][/\ DOMAIN message_queue \subseteq DOMAIN message_queue'
       /\ \A name \in DOMAIN message_queue' \ DOMAIN message_queue :
             /\ Len(message_queue'[name]) = 1
             /\ message_queue'[name][1].metadata.sender.name = name]_vars

\* boostrap_new_agent was called, another sender's queue exists, and
\* "autogpt-agent-factory", from which nothing was appended, is no key
C14_Witness ==
    /\ response.op = "boostrap_new_agent"
    /\ DOMAIN message_queue = {"autogpt-agent"}

\* C15: a call of boostrap_new_agent returns a response that carries every
\* message the agent factory published in reaction to the bootstrap message,
\* and leaves the queue of "autogpt-agent-factory" empty.
C15_BootstrapResponseCarriesReplies ==
    [][\A request \in Requests : boostrap_new_agent(request) =>
          /\ response'.exc = "none"
          /\ \A n \in 1..Len(last'.nested) :
                last'.nested[n].message \in Range(response'.json)
          /\ queue_of(message_queue', "autogpt-agent-factory") = <<>>]_vars

\* C16: every call of a server operation gets a response from _send_message,
\* with status_code 200 when the send returned true and 500 otherwise, also
\* when the call passes no extra content or metadata.
C16_SendMessageReturnsResponse ==
    response.op # "none" =>
        /\ response.exc = "none"
        /\ response.published
        /\ response.status_code \in {200, 500}

\* C17: every message in the mailbox has sender role AGENT or AGENT_FACTORY and
\* is in the queue keyed by its own sender name; no message of the user
\* emitter is in any queue.
C17_MailboxHoldsServerMessages ==
    \A name \in DOMAIN message_queue : \A k \in 1..Len(message_queue[name]) :
        LET sender == message_queue[name][k].metadata.sender
        IN  /\ sender.role \in {"AGENT", "AGENT_FACTORY"}
            /\ sender.name = name
            /\ sender # UserSender

\* the user emitter has sent a message and the mailbox holds messages
C17_Witness ==
    /\ response.published
    /\ response.message.metadata.sender = UserSender
    /\ QueuedCount(message_queue) > 0

\* C18: give_agent_feedback removes the most recently appended message of
\* "autogpt-agent" and nothing else when that queue is not empty, and fails
\* without changing any queue when it is empty.
C18_FeedbackPopsLastMessage ==
    [][\A request \in Requests : give_agent_feedback(request) =>
          LET before == queue_of(message_queue, "autogpt-agent")
          IN  IF before # <<>>
              THEN /\ message_queue' = set_queue(message_queue, "autogpt-agent",
                                                 SubSeq(before, 1, Len(before) - 1))
                   /\ response'.json = <<before[Len(before)]>>
              ELSE /\ response'.exc # "none"
                   /\ message_queue' = message_queue]_vars

\* C19: each call of a server operation publishes one message on "autogpt" from
\* ("autogpt-user", USER); the instruction "bootstrap_agent" is in it exactly
\* for boostrap_new_agent, whose message matches the bootstrap listener's
\* filter and not the launch listener's.
C19_EachCallPublishesUserMessage ==
    response.op # "none" =>
        /\ response.published
        /\ response.message.metadata.sender = UserSender
        /\ IsBootstrapMessage(response.message) <=> response.op = "boostrap_new_agent"
        /\ response.op = "boostrap_new_agent" =>
              /\ is_user_bootstrap_message(response.message) = Return(TRUE)
              /\ is_user_launch_message(response.message) = Return(FALSE)

====
